---- MODULE Spec2Model ----
(***************************************************************************)
(* Model of wmeints/video-processor: the timestamp utility and trim        *)
(* planner (video_editor.py) and the two orchestrators of the five-state   *)
(* pipeline (pipeline.run_pipeline and cli.process).                       *)
(*                                                                         *)
(* Text is a sequence of one-character strings, so that the regular        *)
(* expression of parse_timestamp is modelled character by character.       *)
(* Times are floats in the source; here they are whole numbers of ticks,   *)
(* TicksPerSecond ticks to the second, so a probed duration can fall       *)
(* between two whole seconds.                                              *)
(***************************************************************************)
EXTENDS Naturals, Integers, Sequences, FiniteSets, TLC

VARIABLES orch, ctx, fs_in, thumbnail_path, pc, events, requests,
          processing, output, transcription, metadata, trim, exit,
          io, error,
          ts_text, ts_result, fmt_seconds, fmt_text, back_result, back_text,
          now, runs, touched, overlapped

vars == <<orch, ctx, fs_in, thumbnail_path, pc, events, requests,
          processing, output, transcription, metadata, trim, exit,
          io, error,
          ts_text, ts_result, fmt_seconds, fmt_text, back_result, back_text,
          now, runs, touched, overlapped>>

pipeVars == <<orch, ctx, fs_in, thumbnail_path, pc, events, requests,
              processing, output, transcription, metadata, trim, exit,
              io, error>>

tsVars == <<ts_text, ts_result, fmt_seconds, fmt_text, back_result,
           back_text>>

runVars == <<now, runs, touched, overlapped>>

(***************************************************************************)
(* Bounds of the model.                                                    *)
(***************************************************************************)
MaxLen == 5
MaxDurationTicks == 5
TicksPerSecond == 2
MaxFormatSeconds == 6050
MaxClockTicks == 3

(***************************************************************************)
(* Program constants.                                                      *)
(***************************************************************************)
SecondsPerMinute == 60
SampleRate == 16000

(***************************************************************************)
(* Text.                                                                   *)
(***************************************************************************)
NL == "\n"
Digits == {"0", "1", "2", "3", "4", "5", "6", "7", "8", "9"}

DigitVal(c) ==
    CASE c = "0" -> 0 [] c = "1" -> 1 [] c = "2" -> 2 [] c = "3" -> 3
      [] c = "4" -> 4 [] c = "5" -> 5 [] c = "6" -> 6 [] c = "7" -> 7
      [] c = "8" -> 8 [] c = "9" -> 9

\* Python's None for an Optional[str] argument.
None == <<"None">>

\* Python truthiness of an Optional[str]: None and "" are both falsy.
Truthy(t) == t # None /\ t # <<>>

(***************************************************************************)
(* video_editor.parse_timestamp                                            *)
(***************************************************************************)
\* re.match(r'^(\d{1,2}):(\d{2})$', t) on the text without a line end.
FullMatch(t) ==
    /\ Len(t) \in {4, 5}
    /\ t[Len(t) - 2] = ":"
    /\ \A i \in 1..Len(t) : i # Len(t) - 2 => t[i] \in Digits

\* In Python, $ matches at the end of the string and also just before a
\* newline that is the last character of the string.
ReMatch(t) ==
    \/ FullMatch(t)
    \/ /\ Len(t) >= 1
       /\ t[Len(t)] = NL
       /\ FullMatch(SubSeq(t, 1, Len(t) - 1))

\* The text the two groups are taken from.
Matched(t) == IF FullMatch(t) THEN t ELSE SubSeq(t, 1, Len(t) - 1)

\* int(match.group(1)): one or two digits before the colon.
GroupMinutes(t) ==
    LET m == Matched(t)
    IN  IF Len(m) = 4 THEN DigitVal(m[1])
        ELSE 10 * DigitVal(m[1]) + DigitVal(m[2])

\* int(match.group(2)): the two digits after the colon.
GroupSeconds(t) ==
    LET m == Matched(t)
    IN  10 * DigitVal(m[Len(m) - 1]) + DigitVal(m[Len(m)])

TsValue(v) == [kind |-> "ok", value |-> v]
TsError(k) == [kind |-> k, value |-> 0]

parse_timestamp_mut(timestamp) ==
    IF ~ReMatch(timestamp) THEN TsError("InvalidFormat")
    ELSE IF GroupSeconds(timestamp) >= SecondsPerMinute
         THEN TsError("InvalidSeconds")
    ELSE TsValue(GroupMinutes(timestamp) * 100 + GroupSeconds(timestamp))

parse_timestamp(timestamp) ==
    IF ~ReMatch(timestamp) THEN TsError("InvalidFormat")
    ELSE IF GroupSeconds(timestamp) >= SecondsPerMinute
         THEN TsError("InvalidSeconds")
    ELSE TsValue(GroupMinutes(timestamp) * SecondsPerMinute
                 + GroupSeconds(timestamp))

(***************************************************************************)
(* video_editor.format_timestamp                                           *)
(***************************************************************************)
DigitChar(d) ==
    CASE d = 0 -> "0" [] d = 1 -> "1" [] d = 2 -> "2" [] d = 3 -> "3"
      [] d = 4 -> "4" [] d = 5 -> "5" [] d = 6 -> "6" [] d = 7 -> "7"
      [] d = 8 -> "8" [] d = 9 -> "9"

RECURSIVE Decimal(_)
Decimal(n) == IF n < 10 THEN <<DigitChar(n)>>
              ELSE Append(Decimal(n \div 10), DigitChar(n % 10))

Pad2_nopad(n) == Decimal(n)

\* f"{n:02d}": the decimal digits of n, with a leading zero when there is
\* only one.
Pad2(n) == IF n < 10 THEN <<"0", DigitChar(n)>> ELSE Decimal(n)

format_timestamp_rounded(seconds) ==
    LET minutes == seconds \div (SecondsPerMinute * TicksPerSecond)
        secs == ((seconds % (SecondsPerMinute * TicksPerSecond))
                   + (TicksPerSecond \div 2)) \div TicksPerSecond
    IN  Pad2(minutes) \o <<":">> \o Pad2(secs)

\* seconds is a float in the source and a number of ticks here: seconds // 60
\* counts the whole minutes, and int(seconds % 60) drops the fraction of the
\* remainder.
format_timestamp(seconds) ==
    LET minutes == seconds \div (SecondsPerMinute * TicksPerSecond)
        secs == (seconds % (SecondsPerMinute * TicksPerSecond))
                   \div TicksPerSecond
    IN  Pad2(minutes) \o <<":">> \o Pad2(secs)

(***************************************************************************)
(* video_editor.trim_video, lines 88-111: the window computed from the     *)
(* probed duration (in ticks) and the two optional timestamps.             *)
(***************************************************************************)
Plan(o, s, e, w) == [outcome |-> o, start_seconds |-> s, end_seconds |-> e,
                     warned |-> w]

trim_plan_noclamp(duration, start_from, end_at) ==
    LET ps == IF Truthy(start_from) THEN parse_timestamp(start_from)
              ELSE TsValue(0)
        pe == IF Truthy(end_at) THEN parse_timestamp(end_at)
              ELSE TsValue(0)
        start_seconds == ps.value * TicksPerSecond
        parsed_end == IF Truthy(end_at) THEN pe.value * TicksPerSecond
                      ELSE duration
    IN  IF ps.kind # "ok" THEN Plan(ps.kind, 0, 0, FALSE)
        ELSE IF pe.kind # "ok" THEN Plan(pe.kind, 0, 0, FALSE)
        ELSE IF start_seconds >= duration
             THEN Plan("StartBeyondDuration", start_seconds, parsed_end, FALSE)
        ELSE IF start_seconds >= parsed_end
             THEN Plan("StartAfterEnd", start_seconds, parsed_end, FALSE)
        ELSE Plan("ok", start_seconds, parsed_end, FALSE)

trim_plan_strict(duration, start_from, end_at) ==
    LET ps == IF Truthy(start_from) THEN parse_timestamp(start_from)
              ELSE TsValue(0)
        pe == IF Truthy(end_at) THEN parse_timestamp(end_at)
              ELSE TsValue(0)
        start_seconds == ps.value * TicksPerSecond
        parsed_end == IF Truthy(end_at) THEN pe.value * TicksPerSecond
                      ELSE duration
        warned == parsed_end > duration
        end_seconds == IF warned THEN duration ELSE parsed_end
    IN  IF ps.kind # "ok" THEN Plan(ps.kind, 0, 0, FALSE)
        ELSE IF pe.kind # "ok" THEN Plan(pe.kind, 0, 0, FALSE)
        ELSE IF start_seconds >= duration
             THEN Plan("StartBeyondDuration", start_seconds, parsed_end, FALSE)
        ELSE IF start_seconds > end_seconds
             THEN Plan("StartAfterEnd", start_seconds, end_seconds, warned)
        ELSE Plan("ok", start_seconds, end_seconds, warned)

trim_plan_endfirst(duration, start_from, end_at) ==
    LET ps == IF Truthy(start_from) THEN parse_timestamp(start_from)
              ELSE TsValue(0)
        pe == IF Truthy(end_at) THEN parse_timestamp(end_at)
              ELSE TsValue(0)
        start_seconds == ps.value * TicksPerSecond
        parsed_end == IF Truthy(end_at) THEN pe.value * TicksPerSecond
                      ELSE duration
        warned == parsed_end > duration
        end_seconds == IF warned THEN duration ELSE parsed_end
    IN  IF ps.kind # "ok" THEN Plan(ps.kind, 0, 0, FALSE)
        ELSE IF pe.kind # "ok" THEN Plan(pe.kind, 0, 0, FALSE)
        ELSE IF start_seconds >= end_seconds
             THEN Plan("StartAfterEnd", start_seconds, end_seconds, warned)
        ELSE IF start_seconds >= duration
             THEN Plan("StartBeyondDuration", start_seconds, parsed_end, FALSE)
        ELSE Plan("ok", start_seconds, end_seconds, warned)

trim_plan_lenient(duration, start_from, end_at) ==
    LET ps == IF Truthy(start_from) /\ ReMatch(start_from)
              THEN TsValue(GroupMinutes(start_from) * SecondsPerMinute
                           + GroupSeconds(start_from))
              ELSE TsValue(0)
        pe == IF Truthy(end_at) /\ ReMatch(end_at)
              THEN TsValue(GroupMinutes(end_at) * SecondsPerMinute
                           + GroupSeconds(end_at))
              ELSE TsValue(0)
        start_seconds == ps.value * TicksPerSecond
        parsed_end == IF Truthy(end_at) /\ ReMatch(end_at)
                      THEN pe.value * TicksPerSecond
                      ELSE duration
        warned == parsed_end > duration
        end_seconds == IF warned THEN duration ELSE parsed_end
    IN  IF start_seconds >= duration
        THEN Plan("StartBeyondDuration", start_seconds, parsed_end, FALSE)
        ELSE IF start_seconds >= end_seconds
             THEN Plan("StartAfterEnd", start_seconds, end_seconds, warned)
        ELSE Plan("ok", start_seconds, end_seconds, warned)

trim_plan_reject(duration, start_from, end_at) ==
    LET ps == IF Truthy(start_from) THEN parse_timestamp(start_from)
              ELSE TsValue(0)
        pe == IF Truthy(end_at) THEN parse_timestamp(end_at)
              ELSE TsValue(0)
        start_seconds == ps.value * TicksPerSecond
        parsed_end == IF Truthy(end_at) THEN pe.value * TicksPerSecond
                      ELSE duration
    IN  IF ps.kind # "ok" THEN Plan(ps.kind, 0, 0, FALSE)
        ELSE IF pe.kind # "ok" THEN Plan(pe.kind, 0, 0, FALSE)
        ELSE IF start_seconds >= duration \/ parsed_end > duration
             THEN Plan("StartBeyondDuration", start_seconds, parsed_end, FALSE)
        ELSE IF start_seconds >= parsed_end
             THEN Plan("StartAfterEnd", start_seconds, parsed_end, FALSE)
        ELSE Plan("ok", start_seconds, parsed_end, FALSE)

trim_plan_fromzero(duration, start_from, end_at) ==
    LET ps == IF Truthy(start_from) THEN parse_timestamp(start_from)
              ELSE TsValue(0)
        pe == IF Truthy(end_at) THEN parse_timestamp(end_at)
              ELSE TsValue(0)
        start_seconds == ps.value * TicksPerSecond
        parsed_end == IF Truthy(end_at) THEN pe.value * TicksPerSecond
                      ELSE duration
        warned == parsed_end > duration
        end_seconds == IF warned THEN duration ELSE parsed_end
    IN  IF ps.kind # "ok" THEN Plan(ps.kind, 0, 0, FALSE)
        ELSE IF pe.kind # "ok" THEN Plan(pe.kind, 0, 0, FALSE)
        ELSE IF start_seconds >= duration
             THEN Plan("StartBeyondDuration", start_seconds, parsed_end, FALSE)
        ELSE IF start_seconds >= end_seconds
             THEN Plan("StartAfterEnd", start_seconds, end_seconds, warned)
        ELSE Plan("ok", 0, end_seconds, warned)

\* start_seconds = parse_timestamp(start_from) if start_from else 0.0
\* end_seconds = parse_timestamp(end_at) if end_at else duration
\* then the three range checks in the order of the source.
trim_plan(duration, start_from, end_at) ==
    LET ps == IF Truthy(start_from) THEN parse_timestamp(start_from)
              ELSE TsValue(0)
        pe == IF Truthy(end_at) THEN parse_timestamp(end_at)
              ELSE TsValue(0)
        start_seconds == ps.value * TicksPerSecond
        parsed_end == IF Truthy(end_at) THEN pe.value * TicksPerSecond
                      ELSE duration
        warned == parsed_end > duration
        end_seconds == IF warned THEN duration ELSE parsed_end
    IN  IF ps.kind # "ok" THEN Plan(ps.kind, 0, 0, FALSE)
        ELSE IF pe.kind # "ok" THEN Plan(pe.kind, 0, 0, FALSE)
        ELSE IF start_seconds >= duration
             THEN Plan("StartBeyondDuration", start_seconds, parsed_end, FALSE)
        ELSE IF start_seconds >= end_seconds
             THEN Plan("StartAfterEnd", start_seconds, end_seconds, warned)
        ELSE Plan("ok", start_seconds, end_seconds, warned)

(***************************************************************************)
(* Inputs of a run.                                                        *)
(***************************************************************************)
\* Python's None for the optional title, subtitle and author strings.
NoneS == "<None>"
TruthyS(x) == x # NoneS /\ x # ""

\* x or y, on optional strings.
OrS(x, y) == IF TruthyS(x) THEN x ELSE y

\* The --start-from / --end-at texts tried: absent, empty, whole seconds
\* around the probed durations, a malformed text, a seconds field of 60 and
\* a text that ends in a newline.
TsInputs ==
    { None, <<>>,
      <<"0", "0", ":", "0", "0">>,
      <<"0", "0", ":", "0", "1">>,
      <<"0", ":", "0", "3">>,
      <<"1", ":", "2", ":", "3">>,
      <<"0", "0", ":", "6", "0">>,
      <<"0", "0", ":", "0", "1", NL>> }

\* The probed duration of a video that has footage, in ticks.
Durations == 1..MaxDurationTicks

Titles == {NoneS, "", "Metadata Test"}
Subtitles == {NoneS, "Author Name"}
Authors == {NoneS, "Willem"}
Langs == {"nl", "en"}

\* datetime.now().strftime("%Y%m%d_%H%M%S") of the run the pipeline model
\* follows.
RunTimestamp == "20250101_120000"

\* pipeline.ProcessingContext; in cli.process the same values are the
\* parameters of the command.  The runs followed are those in which the
\* texts of the metadata vary and the video is trimmed at its end or not at
\* all, and those in which the two timestamps vary and the metadata is left
\* to the text-generation service.
MetaContexts ==
    [ title : Titles, subtitle : Subtitles, author : Authors,
      start_from : {None}, end_at : {None, <<"0", "0", ":", "0", "1">>},
      skip_transcription : BOOLEAN, lang : Langs,
      timestamp : {RunTimestamp} ]

TrimContexts ==
    [ title : {NoneS}, subtitle : {NoneS}, author : {NoneS},
      start_from : TsInputs, end_at : TsInputs,
      skip_transcription : BOOLEAN, lang : {"en"},
      timestamp : {RunTimestamp} ]

Contexts == MetaContexts \cup TrimContexts

\* What is on disk before the run: the input video and the theme images.
InputFiles == [video : BOOLEAN, jpg : BOOLEAN, png : BOOLEAN]

SourceBytes == "source video"
Absent == "absent"

ProcessingFiles ==
    { "audio.wav", "transcription.txt", "metadata.json", "trimmed_video.mp4",
      "thumbnail_with_text.png", "thumbnail_video.mp4", "concat_list.txt",
      "video_with_thumbnail.mp4" }

NoOutput == [video |-> Absent, sidecar |-> Absent,
             video_name |-> <<>>, sidecar_name |-> <<>>,
             sidecar_json |-> [title |-> NoneS, description |-> NoneS,
                               author |-> NoneS]]

NoMetadata == [title |-> NoneS, description |-> NoneS, author |-> NoneS]
NoTrim == [ran |-> FALSE, probed |-> FALSE, duration |-> 0,
           outcome |-> "none", start_seconds |-> 0, end_seconds |-> 0,
           warned |-> FALSE, requested |-> FALSE]

TsIdle == [kind |-> "idle", value |-> 0]

\* No error message has been printed.
NoError == [kind |-> "none", theme |-> NoneS, available |-> <<>>]

\* The requested theme (--theme, default "raise").
Theme == "raise"

\* The processes of the two-run model and their state before they start.
Runs == {1, 2}
NotStarted == [phase |-> "idle", timestamp |-> 0, slug |-> NoneS,
               step |-> 0]

(***************************************************************************)
(* The five states in the order the orchestrators call them.               *)
(***************************************************************************)
StateNames == <<"ExtractAudio", "Transcribe", "GenerateMetadata", "Trim",
                "Thumbnail&Publish">>

StateOf(p) == IF p \in {"AddThumbnail", "SaveOutput"} THEN "Thumbnail&Publish"
              ELSE p

NextPc_swapped(p) ==
    CASE p = "ExtractAudio" -> "Transcribe"
      [] p = "Transcribe" -> "Trim"
      [] p = "Trim" -> "GenerateMetadata"
      [] p = "GenerateMetadata" -> "AddThumbnail"
      [] p = "AddThumbnail" -> "SaveOutput"
      [] p = "SaveOutput" -> "done"

\* run_pipeline, lines 151-156; cli.process, lines 184-266.
NextPc(p) ==
    CASE p = "ExtractAudio" -> "Transcribe"
      [] p = "Transcribe" -> "GenerateMetadata"
      [] p = "GenerateMetadata" -> "Trim"
      [] p = "Trim" -> "AddThumbnail"
      [] p = "AddThumbnail" -> "SaveOutput"
      [] p = "SaveOutput" -> "done"

FailPc_continue(p) == NextPc(p)

\* An exception out of a step ends the run: no step of either orchestrator
\* catches it and goes on.
FailPc(p) == "failed"

\* cli.process turns the exception into exit code 1, run_pipeline lets it
\* propagate to its caller.
Fatal == IF orch = "cli" THEN "exit1" ELSE "raised"

Req(svc, op, args) == [svc |-> svc, op |-> op, state |-> StateOf(pc),
                       args |-> args]

\* One access of the running state to a file: the source video, the theme
\* image, a file of the processing directory or a file of the output
\* directory.
Acc(mode, path) == <<StateOf(pc), mode, path>>
Reads(paths) == {Acc("read", f) : f \in paths}
Writes(paths) == {Acc("write", f) : f \in paths}

Init ==
    /\ orch \in {"cli", "pipeline"}
    /\ ctx \in Contexts
    /\ fs_in \in InputFiles
    /\ thumbnail_path \in IF orch = "cli" THEN {"unresolved"}
                          ELSE {"jpg", "png"}
    /\ pc = IF orch = "cli" THEN "validate" ELSE "ExtractAudio"
    /\ events = <<>>
    /\ requests = <<>>
    /\ processing = [f \in ProcessingFiles |-> Absent]
    /\ output = NoOutput
    /\ transcription = NoneS
    /\ metadata = NoMetadata
    /\ trim = NoTrim
    /\ exit = "running"
    /\ io = {}
    /\ error = NoError
    /\ ts_text = <<>>
    /\ ts_result = TsIdle
    /\ fmt_seconds = 0
    /\ fmt_text = <<>>
    /\ back_result = TsIdle
    /\ back_text = <<>>
    /\ now = 0
    /\ runs = [r \in Runs |-> NotStarted]
    /\ touched = {}
    /\ overlapped = FALSE

(***************************************************************************)
(* cli.get_thumbnail_path and the two checks of cli.process before the     *)
(* first step.                                                             *)
(***************************************************************************)
get_thumbnail_path_nocheck(files) ==
    IF files.png /\ ~files.jpg THEN "png" ELSE "jpg"

get_thumbnail_path_pngfirst(files) ==
    IF files.png THEN "png" ELSE IF files.jpg THEN "jpg" ELSE "FileNotFound"

get_thumbnail_path(files) ==
    IF files.jpg THEN "jpg" ELSE IF files.png THEN "png" ELSE "FileNotFound"

\* What thumbnails/*.jpg and thumbnails/*.png list when the requested theme
\* is not among them: the stems of the other themes.
Listings == {<<>>, <<"dark">>, <<"dark", "light">>}

\* The message of the FileNotFoundError: the theme asked for, and the
\* available themes or the word none.
ThemeError(theme, available_names) ==
    [kind |-> "ThemeNotFound", theme |-> theme,
     available |-> IF available_names # <<>> THEN available_names
                   ELSE <<"none">>]

\* "Video file not found: <path>"
VideoError == [kind |-> "VideoNotFound", theme |-> NoneS, available |-> <<>>]

Validate ==
    /\ pc = "validate"
    /\ IF ~fs_in.video
       THEN /\ pc' = "aborted"
            /\ exit' = "exit1"
            /\ error' = VideoError
            /\ UNCHANGED thumbnail_path
       ELSE IF get_thumbnail_path(fs_in) = "FileNotFound"
       THEN /\ pc' = "aborted"
            /\ exit' = "exit1"
            /\ \E available_names \in Listings :
                 error' = ThemeError(Theme, available_names)
            /\ UNCHANGED thumbnail_path
       ELSE /\ pc' = "ExtractAudio"
            /\ thumbnail_path' = get_thumbnail_path(fs_in)
            /\ UNCHANGED <<exit, error>>
    /\ UNCHANGED <<orch, ctx, fs_in, events, requests, processing, output,
                   transcription, metadata, trim, io, tsVars, runVars>>

(***************************************************************************)
(* Step 1: extract_audio.                                                  *)
(***************************************************************************)
AudioRequest_stereo ==
    Req("transcode", "extract_audio",
        [acodec |-> "pcm_s16le", ac |-> 2, ar |-> 44100])

\* ffmpeg ... acodec='pcm_s16le', ac=1, ar=sample_rate, with the default
\* sample_rate of extract_audio, which neither orchestrator overrides.
AudioRequest ==
    Req("transcode", "extract_audio",
        [acodec |-> "pcm_s16le", ac |-> 1, ar |-> SampleRate])

StepExtractAudio_retry ==
    /\ pc = "ExtractAudio"
    /\ \E ok \in BOOLEAN :
         /\ ok => fs_in.video
         /\ requests' = IF ok THEN Append(requests, AudioRequest)
                        ELSE requests \o <<AudioRequest, AudioRequest>>
         /\ io' = io \cup Reads({"source"})
                     \cup (IF ok THEN Writes({"audio.wav"}) ELSE {})
         /\ IF ok
            THEN /\ processing' = [processing EXCEPT !["audio.wav"] = "audio"]
                 /\ events' = events \o <<<<"enter", "ExtractAudio">>,
                                          <<"exit", "ExtractAudio">>>>
                 /\ pc' = NextPc(pc)
                 /\ UNCHANGED exit
            ELSE /\ events' = events \o <<<<"enter", "ExtractAudio">>,
                                          <<"fail", "ExtractAudio">>>>
                 /\ pc' = FailPc(pc)
                 /\ exit' = Fatal
                 /\ UNCHANGED processing
    /\ UNCHANGED <<orch, ctx, fs_in, thumbnail_path, output, transcription,
                   metadata, trim, error, tsVars, runVars>>

StepExtractAudio ==
    /\ pc = "ExtractAudio"
    /\ requests' = Append(requests, AudioRequest)
    /\ \E ok \in BOOLEAN :
         /\ ok => fs_in.video
         /\ io' = io \cup Reads({"source"})
                     \cup (IF ok THEN Writes({"audio.wav"}) ELSE {})
         /\ IF ok
            THEN /\ processing' = [processing EXCEPT !["audio.wav"] = "audio"]
                 /\ events' = events \o <<<<"enter", "ExtractAudio">>,
                                          <<"exit", "ExtractAudio">>>>
                 /\ pc' = NextPc(pc)
                 /\ UNCHANGED exit
            ELSE /\ events' = events \o <<<<"enter", "ExtractAudio">>,
                                          <<"fail", "ExtractAudio">>>>
                 /\ pc' = FailPc(pc)
                 /\ exit' = Fatal
                 /\ UNCHANGED processing
    /\ UNCHANGED <<orch, ctx, fs_in, thumbnail_path, output, transcription,
                   metadata, trim, error, tsVars, runVars>>

(***************************************************************************)
(* Step 2: transcribe_audio, unless skip_transcription.                    *)
(***************************************************************************)
\* cli.process calls transcribe_audio without lang, whose default is "en".
TranscribeLang == IF orch = "pipeline" THEN ctx.lang ELSE "en"

SkippedTranscript_empty(c) == IF TruthyS(c.title) THEN c.title ELSE ""

\* return ctx.title or "Video Content"
SkippedTranscript(c) == OrS(c.title, "Video Content")

StepTranscribe_mutating ==
    /\ pc = "Transcribe"
    /\ IF ctx.skip_transcription
       THEN /\ transcription' = SkippedTranscript(ctx)
            /\ ctx' = [ctx EXCEPT !.title = SkippedTranscript(ctx)]
            /\ events' = events \o <<<<"enter", "Transcribe">>,
                                     <<"exit", "Transcribe">>>>
            /\ pc' = NextPc(pc)
            /\ UNCHANGED <<requests, processing, exit, io>>
       ELSE /\ UNCHANGED ctx
            /\ requests' = Append(requests,
                             Req("transcription", "transcribe",
                                 [lang |-> TranscribeLang]))
            /\ \E ok \in BOOLEAN :
                 IF ok
                 THEN /\ transcription' = "transcript"
                      /\ io' = io \cup Reads({"audio.wav"})
                                  \cup Writes({"transcription.txt"})
                      /\ processing' = [processing EXCEPT
                                          !["transcription.txt"] = "transcript"]
                      /\ events' = events \o <<<<"enter", "Transcribe">>,
                                               <<"exit", "Transcribe">>>>
                      /\ pc' = NextPc(pc)
                      /\ UNCHANGED exit
                 ELSE /\ events' = events \o <<<<"enter", "Transcribe">>,
                                               <<"fail", "Transcribe">>>>
                      /\ pc' = FailPc(pc)
                      /\ exit' = Fatal
                      /\ io' = io \cup Reads({"audio.wav"})
                      /\ UNCHANGED <<transcription, processing>>
    /\ UNCHANGED <<orch, fs_in, thumbnail_path, output, metadata, trim,
                   error, tsVars, runVars>>

StepTranscribe_cleanup ==
    /\ pc = "Transcribe"
    /\ IF ctx.skip_transcription
       THEN /\ transcription' = SkippedTranscript(ctx)
            /\ events' = events \o <<<<"enter", "Transcribe">>,
                                     <<"exit", "Transcribe">>>>
            /\ pc' = NextPc(pc)
            /\ UNCHANGED <<requests, processing, exit, io>>
       ELSE /\ requests' = Append(requests,
                             Req("transcription", "transcribe",
                                 [lang |-> TranscribeLang]))
            /\ \E ok \in BOOLEAN :
                 IF ok
                 THEN /\ transcription' = "transcript"
                      /\ io' = io \cup Reads({"audio.wav"})
                                  \cup Writes({"transcription.txt"})
                      /\ processing' = [processing EXCEPT
                                          !["transcription.txt"] = "transcript"]
                      /\ events' = events \o <<<<"enter", "Transcribe">>,
                                               <<"exit", "Transcribe">>>>
                      /\ pc' = NextPc(pc)
                      /\ UNCHANGED exit
                 ELSE /\ events' = events \o <<<<"enter", "Transcribe">>,
                                               <<"fail", "Transcribe">>>>
                      /\ pc' = FailPc(pc)
                      /\ exit' = Fatal
                      /\ io' = io \cup Reads({"audio.wav"})
                      /\ processing' = [f \in ProcessingFiles |-> Absent]
                      /\ UNCHANGED transcription
    /\ UNCHANGED <<orch, ctx, fs_in, thumbnail_path, output, metadata, trim,
                   error, tsVars, runVars>>

StepTranscribe ==
    /\ pc = "Transcribe"
    /\ IF ctx.skip_transcription
       THEN /\ transcription' = SkippedTranscript(ctx)
            /\ events' = events \o <<<<"enter", "Transcribe">>,
                                     <<"exit", "Transcribe">>>>
            /\ pc' = NextPc(pc)
            /\ UNCHANGED <<requests, processing, exit, io>>
       ELSE /\ requests' = Append(requests,
                             Req("transcription", "transcribe",
                                 [lang |-> TranscribeLang]))
            /\ \E ok \in BOOLEAN :
                 IF ok
                 THEN /\ transcription' = "transcript"
                      /\ io' = io \cup Reads({"audio.wav"})
                                  \cup Writes({"transcription.txt"})
                      /\ processing' = [processing EXCEPT
                                          !["transcription.txt"] = "transcript"]
                      /\ events' = events \o <<<<"enter", "Transcribe">>,
                                               <<"exit", "Transcribe">>>>
                      /\ pc' = NextPc(pc)
                      /\ UNCHANGED exit
                 ELSE /\ events' = events \o <<<<"enter", "Transcribe">>,
                                               <<"fail", "Transcribe">>>>
                      /\ pc' = FailPc(pc)
                      /\ exit' = Fatal
                      /\ io' = io \cup Reads({"audio.wav"})
                      /\ UNCHANGED <<transcription, processing>>
    /\ UNCHANGED <<orch, ctx, fs_in, thumbnail_path, output, metadata, trim,
                   error, tsVars, runVars>>

(***************************************************************************)
(* Step 3: generate_content_metadata, unless transcription was skipped and *)
(* a title was given.                                                      *)
(***************************************************************************)
\* The text-generation service: it answers with a title and a description,
\* or it fails.
TextGenOutcomes == {"ok", "fail"}
Generated == [title |-> "Generated Title",
              description |-> "Generated description"]

FinalMetadata_generated(generated) ==
    [title |-> OrS(generated.title, ctx.title),
     description |-> OrS(generated.description, ctx.subtitle),
     author |-> ctx.author]

\* VideoMetadata(title=ctx.title or generated["title"], ...)
FinalMetadata(generated) ==
    [title |-> OrS(ctx.title, generated.title),
     description |-> OrS(ctx.subtitle, generated.description),
     author |-> ctx.author]

UseUserMetadata_skiponly(c) == c.skip_transcription

\* if ctx.skip_transcription and ctx.title
UseUserMetadata(c) == c.skip_transcription /\ TruthyS(c.title)

StepGenerateMetadata ==
    /\ pc = "GenerateMetadata"
    /\ IF UseUserMetadata(ctx)
       THEN /\ metadata' = FinalMetadata(
                             [title |-> ctx.title,
                              description |-> OrS(ctx.subtitle, "Video content")])
            /\ events' = events \o <<<<"enter", "GenerateMetadata">>,
                                     <<"exit", "GenerateMetadata">>>>
            /\ pc' = NextPc(pc)
            /\ UNCHANGED <<requests, processing, exit, io>>
       ELSE /\ requests' = Append(requests,
                             Req("textgen", "generate",
                                 [transcript |-> transcription,
                                  lang |-> ctx.lang]))
            /\ \E res \in TextGenOutcomes :
                 IF res = "ok"
                 THEN /\ metadata' = FinalMetadata(Generated)
                      /\ processing' = [processing EXCEPT
                                          !["metadata.json"] = "generated"]
                      /\ io' = io \cup Writes({"metadata.json"})
                      /\ events' = events \o <<<<"enter", "GenerateMetadata">>,
                                               <<"exit", "GenerateMetadata">>>>
                      /\ pc' = NextPc(pc)
                      /\ UNCHANGED exit
                 ELSE /\ events' = events \o <<<<"enter", "GenerateMetadata">>,
                                               <<"fail", "GenerateMetadata">>>>
                      /\ pc' = FailPc(pc)
                      /\ exit' = Fatal
                      /\ UNCHANGED <<metadata, processing, io>>
    /\ UNCHANGED <<orch, ctx, fs_in, thumbnail_path, output, transcription,
                   trim, error, tsVars, runVars>>

(***************************************************************************)
(* Step 4: trim_video when a timestamp was given, else a copy of the       *)
(* source.                                                                 *)
(***************************************************************************)
TrimRequested_always(c) == TRUE

\* if ctx.start_from or ctx.end_at
TrimRequested(c) == Truthy(c.start_from) \/ Truthy(c.end_at)

StepTrimVideo ==
    /\ pc = "Trim"
    /\ IF TrimRequested(ctx)
       THEN \E probe_ok \in BOOLEAN, duration \in Durations, run_ok \in BOOLEAN :
              LET plan == trim_plan(duration, ctx.start_from, ctx.end_at)
                  issued == probe_ok /\ plan.outcome = "ok"
                  probe == Req("transcode", "probe_duration",
                               [input |-> "source"])
                  extract == Req("transcode", "trim",
                                 [ss |-> plan.start_seconds,
                                  t |-> plan.end_seconds - plan.start_seconds,
                                  c |-> "copy"])
              IN  /\ ~probe_ok => duration = 1
                  /\ ~issued => run_ok
                  /\ requests' = IF issued
                                 THEN requests \o <<probe, extract>>
                                 ELSE Append(requests, probe)
                  /\ trim' = IF probe_ok
                             THEN [ran |-> TRUE, probed |-> TRUE,
                                   duration |-> duration,
                                   outcome |-> IF issued /\ ~run_ok
                                               THEN "TranscodeFailed"
                                               ELSE plan.outcome,
                                   start_seconds |-> plan.start_seconds,
                                   end_seconds |-> plan.end_seconds,
                                   warned |-> plan.warned,
                                   requested |-> issued]
                             ELSE [NoTrim EXCEPT !.ran = TRUE,
                                                 !.outcome = "ProbeFailed"]
                  /\ io' = io \cup Reads({"source"})
                              \cup (IF issued /\ run_ok
                                    THEN Writes({"trimmed_video.mp4"})
                                    ELSE {})
                  /\ IF issued /\ run_ok
                     THEN /\ processing' = [processing EXCEPT
                                              !["trimmed_video.mp4"] = "trimmed"]
                          /\ events' = events \o <<<<"enter", "Trim">>,
                                                   <<"exit", "Trim">>>>
                          /\ pc' = NextPc(pc)
                          /\ UNCHANGED exit
                     ELSE /\ events' = events \o <<<<"enter", "Trim">>,
                                                   <<"fail", "Trim">>>>
                          /\ pc' = FailPc(pc)
                          /\ exit' = Fatal
                          /\ UNCHANGED processing
       ELSE \E copy_ok \in BOOLEAN :
              /\ trim' = [NoTrim EXCEPT !.ran = TRUE,
                                        !.outcome = IF copy_ok THEN "copied"
                                                    ELSE "CopyFailed"]
              /\ UNCHANGED requests
              /\ io' = io \cup Reads({"source"})
                          \cup (IF copy_ok THEN Writes({"trimmed_video.mp4"})
                                ELSE {})
              /\ IF copy_ok
                 THEN /\ processing' = [processing EXCEPT
                                          !["trimmed_video.mp4"] = SourceBytes]
                      /\ events' = events \o <<<<"enter", "Trim">>,
                                               <<"exit", "Trim">>>>
                      /\ pc' = NextPc(pc)
                      /\ UNCHANGED exit
                 ELSE /\ events' = events \o <<<<"enter", "Trim">>,
                                               <<"fail", "Trim">>>>
                      /\ pc' = FailPc(pc)
                      /\ exit' = Fatal
                      /\ UNCHANGED processing
    /\ UNCHANGED <<orch, ctx, fs_in, thumbnail_path, output, transcription,
                   metadata, error, tsVars, runVars>>

(***************************************************************************)
(* Step 5, first half: get_video_dimensions, create_thumbnail_with_text    *)
(* and add_thumbnail_to_video.  The calls are made in this order and the   *)
(* first one that fails ends the step.                                     *)
(***************************************************************************)
ThumbnailStages == <<"dims", "annotate", "probe", "synth", "concat">>
NoFailure == Len(ThumbnailStages) + 1

\* The theme image the annotation reads is on disk.
ThumbnailOnDisk == IF thumbnail_path = "jpg" THEN fs_in.jpg ELSE fs_in.png

ThumbnailRequest_source(stage) ==
    CASE stage = "dims" ->
           Req("transcode", "probe_dimensions", [input |-> "source"])
      [] stage = "annotate" ->
           Req("annotate", "title_card",
               [image |-> thumbnail_path, title |-> metadata.title,
                subtitle |-> OrS(metadata.description, metadata.author),
                size |-> "source"])
      [] stage = "probe" ->
           Req("transcode", "probe_streams", [input |-> "trimmed_video.mp4"])
      [] stage = "synth" ->
           Req("transcode", "still_to_video",
               [input |-> "thumbnail_with_text.png", vcodec |-> "libx264",
                pix_fmt |-> "yuv420p", r |-> "fps of trimmed_video.mp4",
                audio |-> "aac"])
      [] stage = "concat" ->
           Req("transcode", "concat",
               [f |-> "concat", c |-> "copy",
                inputs |-> <<"thumbnail_video.mp4", "trimmed_video.mp4">>])

ThumbnailRequest(stage) ==
    CASE stage = "dims" ->
           Req("transcode", "probe_dimensions", [input |-> "trimmed_video.mp4"])
      [] stage = "annotate" ->
           Req("annotate", "title_card",
               [image |-> thumbnail_path, title |-> metadata.title,
                subtitle |-> OrS(metadata.author, metadata.description),
                size |-> "trimmed_video.mp4"])
      [] stage = "probe" ->
           Req("transcode", "probe_streams", [input |-> "trimmed_video.mp4"])
      [] stage = "synth" ->
           Req("transcode", "still_to_video",
               [input |-> "thumbnail_with_text.png", vcodec |-> "libx264",
                pix_fmt |-> "yuv420p", r |-> "fps of trimmed_video.mp4",
                audio |-> "aac"])
      [] stage = "concat" ->
           Req("transcode", "concat",
               [f |-> "concat", c |-> "copy",
                inputs |-> <<"thumbnail_video.mp4", "trimmed_video.mp4">>])

ThumbnailAccesses_single(stage, ok) ==
    CASE stage = "dims" -> Reads({"trimmed_video.mp4"})
      [] stage = "annotate" -> Reads({"theme"})
      [] stage = "probe" -> Reads({"trimmed_video.mp4"})
      [] stage = "synth" -> Reads({"theme"})
      [] stage = "concat" ->
           Reads({"theme", "trimmed_video.mp4"})
             \cup (IF ok THEN Writes({"video_with_thumbnail.mp4"}) ELSE {})

ThumbnailAccesses_source(stage, ok) ==
    CASE stage = "dims" -> Reads({"source"})
      [] stage = "annotate" ->
           Reads({"theme"})
             \cup (IF ok THEN Writes({"thumbnail_with_text.png"}) ELSE {})
      [] stage = "probe" -> Reads({"source"})
      [] stage = "synth" ->
           Reads({"thumbnail_with_text.png"})
             \cup (IF ok THEN Writes({"thumbnail_video.mp4"}) ELSE {})
      [] stage = "concat" ->
           Writes({"concat_list.txt"})
             \cup Reads({"concat_list.txt", "thumbnail_video.mp4",
                         "source"})
             \cup (IF ok THEN Writes({"video_with_thumbnail.mp4"}) ELSE {})

\* The files a stage opens, and the files it leaves behind when it
\* succeeds.  The concat list is written before the concatenation runs.
ThumbnailAccesses(stage, ok) ==
    CASE stage = "dims" -> Reads({"trimmed_video.mp4"})
      [] stage = "annotate" ->
           Reads({"theme"})
             \cup (IF ok THEN Writes({"thumbnail_with_text.png"}) ELSE {})
      [] stage = "probe" -> Reads({"trimmed_video.mp4"})
      [] stage = "synth" ->
           Reads({"thumbnail_with_text.png"})
             \cup (IF ok THEN Writes({"thumbnail_video.mp4"}) ELSE {})
      [] stage = "concat" ->
           Writes({"concat_list.txt"})
             \cup Reads({"concat_list.txt", "thumbnail_video.mp4",
                         "trimmed_video.mp4"})
             \cup (IF ok THEN Writes({"video_with_thumbnail.mp4"}) ELSE {})

StepAddThumbnail ==
    /\ pc = "AddThumbnail"
    /\ \E failAt \in 1..NoFailure :
         LET reached == IF failAt = NoFailure THEN Len(ThumbnailStages)
                        ELSE failAt
         IN  /\ failAt > 2 => ThumbnailOnDisk
             /\ requests' = requests \o
                   [i \in 1..reached |-> ThumbnailRequest(ThumbnailStages[i])]
             /\ processing' =
                   [f \in ProcessingFiles |->
                      IF f = "thumbnail_with_text.png" /\ failAt > 2
                      THEN "title card"
                      ELSE IF f = "thumbnail_video.mp4" /\ failAt > 4
                      THEN "title clip"
                      ELSE IF f = "concat_list.txt" /\ failAt > 4
                      THEN "concat list"
                      ELSE IF f = "video_with_thumbnail.mp4"
                              /\ failAt = NoFailure
                      THEN "joined"
                      ELSE processing[f]]
             /\ io' = io \cup UNION {ThumbnailAccesses(ThumbnailStages[i],
                                                       i < failAt)
                                      : i \in 1..reached}
             /\ IF failAt = NoFailure
                THEN /\ events' = Append(events,
                                         <<"enter", "Thumbnail&Publish">>)
                     /\ pc' = NextPc(pc)
                     /\ UNCHANGED exit
                ELSE /\ events' = events \o <<<<"enter", "Thumbnail&Publish">>,
                                              <<"fail", "Thumbnail&Publish">>>>
                     /\ pc' = FailPc(pc)
                     /\ exit' = Fatal
    /\ UNCHANGED <<orch, ctx, fs_in, thumbnail_path, output, transcription,
                   metadata, trim, error, tsVars, runVars>>

(***************************************************************************)
(* Step 5, second half: save_output copies the joined video to the output  *)
(* directory and then writes the metadata sidecar.                         *)
(***************************************************************************)
\* slugify(title, max_length=50) on the titles of the model: lower case,
\* every run of other characters a hyphen.
slugify(title) ==
    CASE title = "Metadata Test" -> "metadata-test"
      [] title = "Generated Title" -> "generated-title"
      [] OTHER -> ""

OutputStem_rawtitle(timestamp, title) == <<timestamp, "_", title>>

\* f"{ctx.timestamp}_{slugified_title}"
OutputStem(timestamp, title) == <<timestamp, "_", slugify(title)>>

SaveOutput_sidecarFirst ==
    /\ pc = "SaveOutput"
    /\ \E failAt \in {"copy", "sidecar", "none"} :
         /\ output' =
              [video |-> IF failAt = "none"
                         THEN processing["video_with_thumbnail.mp4"]
                         ELSE output.video,
               video_name |-> IF failAt = "none"
                              THEN Append(OutputStem(ctx.timestamp,
                                                     metadata.title), ".mp4")
                              ELSE output.video_name,
               sidecar |-> IF failAt # "sidecar" THEN "json"
                           ELSE output.sidecar,
               sidecar_name |-> IF failAt # "sidecar"
                                THEN Append(OutputStem(ctx.timestamp,
                                                       metadata.title),
                                            "_metadata.json")
                                ELSE output.sidecar_name,
               sidecar_json |-> IF failAt # "sidecar"
                                THEN [title |-> metadata.title,
                                      description |-> metadata.description,
                                      author |-> metadata.author]
                                ELSE output.sidecar_json]
         /\ io' = io \cup Reads({"video_with_thumbnail.mp4"})
                     \cup (IF failAt = "none" THEN Writes({"output video"})
                           ELSE {})
                     \cup (IF failAt # "sidecar"
                           THEN Writes({"output sidecar"}) ELSE {})
         /\ IF failAt = "none"
            THEN /\ events' = Append(events, <<"exit", "Thumbnail&Publish">>)
                 /\ pc' = NextPc(pc)
                 /\ exit' = "ok"
            ELSE /\ events' = Append(events, <<"fail", "Thumbnail&Publish">>)
                 /\ pc' = FailPc(pc)
                 /\ exit' = Fatal
    /\ UNCHANGED <<orch, ctx, fs_in, thumbnail_path, requests, processing,
                   transcription, metadata, trim, error, tsVars, runVars>>

SaveOutput ==
    /\ pc = "SaveOutput"
    /\ \E failAt \in {"copy", "sidecar", "none"} :
         /\ output' =
              [video |-> IF failAt # "copy"
                         THEN processing["video_with_thumbnail.mp4"]
                         ELSE output.video,
               video_name |-> IF failAt # "copy"
                              THEN Append(OutputStem(ctx.timestamp,
                                                     metadata.title), ".mp4")
                              ELSE output.video_name,
               sidecar |-> IF failAt = "none" THEN "json" ELSE output.sidecar,
               sidecar_name |-> IF failAt = "none"
                                THEN Append(OutputStem(ctx.timestamp,
                                                       metadata.title),
                                            "_metadata.json")
                                ELSE output.sidecar_name,
               sidecar_json |-> IF failAt = "none"
                                THEN [title |-> metadata.title,
                                      description |-> metadata.description,
                                      author |-> metadata.author]
                                ELSE output.sidecar_json]
         /\ io' = io \cup Reads({"video_with_thumbnail.mp4"})
                     \cup (IF failAt # "copy" THEN Writes({"output video"})
                           ELSE {})
                     \cup (IF failAt = "none" THEN Writes({"output sidecar"})
                           ELSE {})
         /\ IF failAt = "none"
            THEN /\ events' = Append(events, <<"exit", "Thumbnail&Publish">>)
                 /\ pc' = NextPc(pc)
                 /\ exit' = "ok"
            ELSE /\ events' = Append(events, <<"fail", "Thumbnail&Publish">>)
                 /\ pc' = FailPc(pc)
                 /\ exit' = Fatal
    /\ UNCHANGED <<orch, ctx, fs_in, thumbnail_path, requests, processing,
                   transcription, metadata, trim, error, tsVars, runVars>>

Next ==
    \/ Validate
    \/ StepExtractAudio
    \/ StepTranscribe
    \/ StepGenerateMetadata
    \/ StepTrimVideo
    \/ StepAddThumbnail
    \/ SaveOutput

Spec == Init /\ [][Next]_vars

(***************************************************************************)
(* The timestamp utility on its own: parse_timestamp applied to every text *)
(* of at most MaxLen characters over TsAlphabet.                           *)
(***************************************************************************)
TsAlphabet == {"0", "1", "3", "5", "6", ":", NL, "x"}

TsTexts == UNION {[1..n -> TsAlphabet] : n \in 0..MaxLen}

\* The pipeline, idle: what the utility and the two-run specifications hold
\* in the variables of the pipeline.
PipelineOff ==
    /\ orch = "none"
    /\ ctx = [title |-> NoneS, subtitle |-> NoneS, author |-> NoneS,
              start_from |-> None, end_at |-> None,
              skip_transcription |-> FALSE, lang |-> "en",
              timestamp |-> RunTimestamp]
    /\ fs_in = [video |-> FALSE, jpg |-> FALSE, png |-> FALSE]
    /\ thumbnail_path = "unresolved"
    /\ pc = "idle"
    /\ events = <<>>
    /\ requests = <<>>
    /\ processing = [f \in ProcessingFiles |-> Absent]
    /\ output = NoOutput
    /\ transcription = NoneS
    /\ metadata = NoMetadata
    /\ trim = NoTrim
    /\ exit = "running"
    /\ io = {}
    /\ error = NoError

\* The seconds format_timestamp is applied to, in ticks: every duration and
\* offset up to MaxFormatSeconds, whole or not.
FormatInputs == 0..(MaxFormatSeconds * TicksPerSecond)

InitTs ==
    /\ \/ ts_text \in TsTexts /\ fmt_seconds = 0
       \/ ts_text = <<>> /\ fmt_seconds \in FormatInputs
    /\ ts_result = TsIdle
    /\ fmt_text = <<>>
    /\ back_result = TsIdle
    /\ back_text = <<>>
    /\ PipelineOff
    /\ now = 0
    /\ runs = [r \in Runs |-> NotStarted]
    /\ touched = {}
    /\ overlapped = FALSE

ParseTimestamp ==
    /\ ts_result = TsIdle
    /\ ts_result' = parse_timestamp(ts_text)
    /\ UNCHANGED <<ts_text, fmt_seconds, fmt_text, back_result, back_text,
                   pipeVars, runVars>>

FormatTimestamp ==
    /\ fmt_text = <<>>
    /\ fmt_text' = format_timestamp(fmt_seconds)
    /\ UNCHANGED <<ts_text, ts_result, fmt_seconds, back_result, back_text,
                   pipeVars, runVars>>

\* parse_timestamp applied to a text format_timestamp returned.
ParseFormatted ==
    /\ fmt_text # <<>>
    /\ back_result = TsIdle
    /\ back_result' = parse_timestamp(fmt_text)
    /\ UNCHANGED <<ts_text, ts_result, fmt_seconds, fmt_text, back_text,
                   pipeVars, runVars>>

\* format_timestamp applied to the seconds parse_timestamp returned.
FormatParsed ==
    /\ ts_result.kind = "ok"
    /\ back_text = <<>>
    /\ back_text' = format_timestamp(ts_result.value * TicksPerSecond)
    /\ UNCHANGED <<ts_text, ts_result, fmt_seconds, fmt_text, back_result,
                   pipeVars, runVars>>

NextTs ==
    \/ ParseTimestamp
    \/ FormatTimestamp
    \/ ParseFormatted
    \/ FormatParsed

SpecTs == InitTs /\ [][NextTs]_vars

(***************************************************************************)
(* Two process commands on one machine.  Each takes its timestamp from the *)
(* clock when it starts, makes processing/<timestamp> (mkdir with          *)
(* exist_ok=True, so a directory that is already there is used as it is)   *)
(* and goes through the five states; only the files it opens are followed. *)
(***************************************************************************)
\* datetime.now().strftime("%Y%m%d_%H%M%S"): the clock, cut to the second.
strftime(t) == t \div TicksPerSecond

RunSlugs == {"metadata-test", "generated-title"}

\* The files a state opens in a run in which every step is carried out.
RunAccesses(state) ==
    CASE state = "ExtractAudio" ->
           {<<"read", "source">>, <<"write", "audio.wav">>}
      [] state = "Transcribe" ->
           {<<"read", "audio.wav">>, <<"write", "transcription.txt">>}
      [] state = "GenerateMetadata" ->
           {<<"write", "metadata.json">>}
      [] state = "Trim" ->
           {<<"read", "source">>, <<"write", "trimmed_video.mp4">>}
      [] state = "Thumbnail&Publish" ->
           {<<"read", "trimmed_video.mp4">>, <<"read", "theme">>,
            <<"write", "thumbnail_with_text.png">>,
            <<"read", "thumbnail_with_text.png">>,
            <<"write", "thumbnail_video.mp4">>,
            <<"write", "concat_list.txt">>, <<"read", "concat_list.txt">>,
            <<"read", "thumbnail_video.mp4">>,
            <<"write", "video_with_thumbnail.mp4">>,
            <<"read", "video_with_thumbnail.mp4">>,
            <<"write", "output video">>, <<"write", "output sidecar">>}

\* Where a file of a run is: processing/<timestamp>/<file>,
\* output/<timestamp>_<slug>.mp4 and output/<timestamp>_<slug>_metadata.json;
\* the source video and the theme image are the same for every run.
PathOf(run, f) ==
    IF f \in ProcessingFiles THEN <<"processing", run.timestamp, "", f>>
    ELSE IF f = "output video"
    THEN <<"output", run.timestamp, run.slug, ".mp4">>
    ELSE IF f = "output sidecar"
    THEN <<"output", run.timestamp, run.slug, "_metadata.json">>
    ELSE <<"input", 0, "", f>>

InitRuns ==
    /\ now = 0
    /\ runs = [r \in Runs |-> NotStarted]
    /\ touched = {}
    /\ overlapped = FALSE
    /\ PipelineOff
    /\ ts_text = <<>>
    /\ ts_result = TsIdle
    /\ fmt_seconds = 0
    /\ fmt_text = <<>>
    /\ back_result = TsIdle
    /\ back_text = <<>>

Tick ==
    /\ now < MaxClockTicks
    /\ now' = now + 1
    /\ UNCHANGED <<runs, touched, overlapped, pipeVars, tsVars>>

StartProcess(r) ==
    /\ runs[r].phase = "idle"
    /\ \E slug \in RunSlugs :
         runs' = [runs EXCEPT ![r] = [phase |-> "running",
                                      timestamp |-> strftime(now),
                                      slug |-> slug, step |-> 1]]
    /\ overlapped' = (overlapped
                        \/ \E q \in Runs \ {r} : runs[q].phase = "running")
    /\ UNCHANGED <<now, touched, pipeVars, tsVars>>

RunStep(r) ==
    /\ runs[r].phase = "running"
    /\ touched' = touched \cup
                    {<<r, a[1], PathOf(runs[r], a[2])>> :
                       a \in RunAccesses(StateNames[runs[r].step])}
    /\ runs' = [runs EXCEPT ![r] =
                  IF runs[r].step = Len(StateNames)
                  THEN [@ EXCEPT !.phase = "done"]
                  ELSE [@ EXCEPT !.step = @ + 1]]
    /\ UNCHANGED <<now, overlapped, pipeVars, tsVars>>

NextRuns ==
    \/ Tick
    \/ \E r \in Runs : StartProcess(r)
    \/ \E r \in Runs : RunStep(r)

SpecRuns == InitRuns /\ [][NextRuns]_vars

(***************************************************************************)
(* Vocabulary of the properties.                                           *)
(***************************************************************************)
IsEnter(e) == e[1] = "enter"
Entered == SelectSeq(events, IsEnter)
Exited(s) == \E i \in 1..Len(events) : events[i] = <<"exit", s>>
Failed(s) == \E i \in 1..Len(events) : events[i] = <<"fail", s>>
IndexOf(s) == CHOOSE k \in 1..Len(StateNames) : StateNames[k] = s

\* A text of the form mm:ss as the specification words it: one or two
\* minute digits, a colon, exactly two second digits, and nothing else.
MmSsForm(t) ==
    /\ Len(t) \in {4, 5}
    /\ t[Len(t) - 2] = ":"
    /\ t[Len(t) - 1] \in Digits
    /\ t[Len(t)] \in Digits
    /\ \A i \in 1..(Len(t) - 3) : t[i] \in Digits

SecondsField(t) == 10 * DigitVal(t[Len(t) - 1]) + DigitVal(t[Len(t)])
MinutesField(t) == IF Len(t) = 4 THEN DigitVal(t[1])
                   ELSE 10 * DigitVal(t[1]) + DigitVal(t[2])

\* A timestamp the user supplied that is not a valid mm:ss text.
MalformedTs(t) == t # None /\ ~(MmSsForm(t) /\ SecondsField(t) < 60)

\* A timestamp trim_video parses and parse_timestamp rejects.
RejectedTs(t) == Truthy(t) /\ parse_timestamp(t).kind # "ok"

\* The start and end of the window in ticks, for timestamps that are absent
\* or accepted.
AcceptedTs(t) == ~Truthy(t) \/ parse_timestamp(t).kind = "ok"
StartTicks == IF Truthy(ctx.start_from)
              THEN parse_timestamp(ctx.start_from).value * TicksPerSecond
              ELSE 0
EndTicks == IF Truthy(ctx.end_at)
            THEN parse_timestamp(ctx.end_at).value * TicksPerSecond
            ELSE trim.duration
ClampedEndTicks == IF EndTicks > trim.duration THEN trim.duration ELSE EndTicks

\* trim_video got as far as the range checks: the probe answered and both
\* timestamps were absent or accepted.
Planned == /\ trim.probed
           /\ AcceptedTs(ctx.start_from)
           /\ AcceptedTs(ctx.end_at)

TrimRequests == {i \in 1..Len(requests) : requests[i].op = "trim"}

ThemeMissing == IF orch = "cli" THEN ~fs_in.jpg /\ ~fs_in.png
                ELSE ~ThumbnailOnDisk

\* C1: the five states are entered in the order ExtractAudio, Transcribe,
\* GenerateMetadata, Trim, Thumbnail&Publish; a state is entered only right
\* after its predecessor has completed, none is entered twice, and every
\* completion or failure closes the one state that is open.
C1_LinearOrder ==
    /\ Len(Entered) <= Len(StateNames)
    /\ \A i \in 1..Len(Entered) : Entered[i][2] = StateNames[i]
    /\ \A i \in 1..Len(events) :
         IF IsEnter(events[i])
         THEN \/ i = 1
              \/ /\ IndexOf(events[i][2]) > 1
                 /\ events[i - 1] =
                      <<"exit", StateNames[IndexOf(events[i][2]) - 1]>>
         ELSE /\ i > 1
              /\ events[i - 1] = <<"enter", events[i][2]>>
    /\ pc \in {"ExtractAudio", "Transcribe", "GenerateMetadata", "Trim",
               "AddThumbnail"}
         => (events = <<>> \/ ~IsEnter(events[Len(events)]))

C1_Witness == pc = "done" /\ Len(events) = 2 * Len(StateNames)

\* C2 as stated: after a state fails no later state runs, and a file is in
\* the output directory only in a run in which all five states succeeded.
C2_AbortLeavesOutputEmpty ==
    /\ \A i \in 1..Len(events) : events[i][1] = "fail" => i = Len(events)
    /\ (output.video # Absent \/ output.sidecar # Absent)
         => \A k \in 1..Len(StateNames) : Exited(StateNames[k])

\* C2 amended: after a state fails no later state runs and the run ends in
\* failure; the sidecar is in the output directory only in a run in which
\* all five states succeeded; the video is there only once the first four
\* states and the joining of the fifth have succeeded, and it stays there
\* when the write of the sidecar then fails.
C2_AbortOnFailure ==
    /\ \A i \in 1..Len(events) : events[i][1] = "fail" => i = Len(events)
    /\ (\E k \in 1..Len(StateNames) : Failed(StateNames[k]))
         => pc = "failed" /\ exit \in {"exit1", "raised"}
    /\ output.sidecar # Absent
         => /\ \A k \in 1..Len(StateNames) : Exited(StateNames[k])
            /\ output.video # Absent
    /\ output.video # Absent
         => /\ \A k \in 1..(Len(StateNames) - 1) : Exited(StateNames[k])
            /\ processing["video_with_thumbnail.mp4"] = output.video
            /\ \/ Exited("Thumbnail&Publish")
               \/ /\ Failed("Thumbnail&Publish")
                  /\ output.sidecar = Absent

C2_Witness ==
    /\ Failed("Thumbnail&Publish")
    /\ processing["thumbnail_video.mp4"] # Absent
    /\ processing["video_with_thumbnail.mp4"] = Absent
    /\ output = NoOutput

\* C3 as stated: with a missing video, a missing theme image or a malformed
\* timestamp no request is ever made to an external service.
C3_InputErrorBeforeAnyService ==
    (\/ ~fs_in.video
     \/ ThemeMissing
     \/ MalformedTs(ctx.start_from)
     \/ MalformedTs(ctx.end_at))
      => requests = <<>>

\* C3 amended: in cli.process a missing video or theme image aborts before
\* any request; a timestamp that parse_timestamp rejects is fatal, but only
\* in the Trim state, after the requests of the earlier states and the
\* duration probe: no trim, title-card or concatenation request is made and
\* nothing is published.
C3_InputErrorsFatal ==
    /\ (orch = "cli" /\ (~fs_in.video \/ ThemeMissing))
         => /\ requests = <<>>
            /\ pc \in {"validate", "aborted"}
            /\ pc = "aborted" => exit = "exit1"
    /\ (RejectedTs(ctx.start_from) \/ RejectedTs(ctx.end_at))
         => /\ pc \notin {"AddThumbnail", "SaveOutput", "done"}
            /\ output = NoOutput
            /\ \A i \in 1..Len(requests) :
                 requests[i].op \in {"extract_audio", "transcribe", "generate",
                                     "probe_duration"}
            /\ trim.probed
                 => /\ trim.outcome \in {"InvalidFormat", "InvalidSeconds"}
                    /\ pc = "failed"
                    /\ exit # "ok"

C3_Witness ==
    /\ pc = "failed"
    /\ trim.outcome \in {"InvalidFormat", "InvalidSeconds"}
    /\ Len(requests) >= 2
    /\ requests[1].op = "extract_audio"

\* C4: every extraction request of trim_video is for a window with
\* 0 <= start_seconds < end_seconds <= source duration.
C4_TrimWindowValid ==
    (trim.requested \/ TrimRequests # {})
      => /\ 0 <= trim.start_seconds
         /\ trim.start_seconds < trim.end_seconds
         /\ trim.end_seconds <= trim.duration
         /\ \A i \in TrimRequests :
              /\ requests[i].args.ss = trim.start_seconds
              /\ requests[i].args.ss + requests[i].args.t <= trim.duration

C4_Witness == trim.requested /\ trim.warned /\ TrimRequests # {}

\* C5: with start >= source duration trim_video fails with
\* StartBeyondDuration whatever the end is (absent, below start or beyond
\* the duration) and makes no extraction request.
C5_StartBeyondDuration ==
    (Planned /\ StartTicks >= trim.duration)
      => /\ trim.outcome = "StartBeyondDuration"
         /\ ~trim.requested
         /\ TrimRequests = {}
         /\ pc = "failed"

C5_Witness ==
    /\ trim.outcome = "StartBeyondDuration"
    /\ Truthy(ctx.end_at)
    /\ EndTicks < StartTicks

\* C6 as stated: with start >= end, end clamped to the source duration,
\* trim_video fails with StartAfterEnd.
C6_StartAfterEndAlways ==
    (Planned /\ StartTicks >= ClampedEndTicks)
      => trim.outcome = "StartAfterEnd"

\* C6 amended: with start below the source duration and start >= end, end
\* clamped to the source duration, trim_video fails with StartAfterEnd and
\* makes no extraction request.
C6_StartAfterEnd ==
    (Planned /\ StartTicks < trim.duration /\ StartTicks >= ClampedEndTicks)
      => /\ trim.outcome = "StartAfterEnd"
         /\ ~trim.requested
         /\ TrimRequests = {}
         /\ pc = "failed"

C6_Witness ==
    /\ trim.outcome = "StartAfterEnd"
    /\ StartTicks = EndTicks

\* C7 as stated: with end > source duration trim_video clamps end to the
\* duration, warns and raises no error of its own.
C7_EndBeyondDurationSucceeds ==
    (Planned /\ EndTicks > trim.duration)
      => /\ trim.warned
         /\ trim.end_seconds = trim.duration
         /\ trim.requested

\* C7 amended: with end > source duration and start below the duration,
\* trim_video clamps end to the duration, warns, raises no range error and
\* makes the extraction request for [start, duration]; the step succeeds
\* when that request does.
C7_EndBeyondDurationClamped ==
    (Planned /\ EndTicks > trim.duration /\ StartTicks < trim.duration)
      => /\ trim.warned
         /\ trim.end_seconds = trim.duration
         /\ trim.requested
         /\ trim.outcome \in {"ok", "TranscodeFailed"}
         /\ trim.outcome = "ok" =>
              /\ Exited("Trim")
              /\ processing["trimmed_video.mp4"] = "trimmed"

C7_Witness ==
    /\ trim.outcome = "ok"
    /\ trim.warned
    /\ EndTicks > trim.duration
    /\ Exited("Trim")

\* C8: with neither timestamp supplied the Trim state makes no probe and no
\* transcoding request, and once it has completed trimmed_video.mp4 holds
\* the bytes of the source video.
C8_NoTimestampsCopiesSource ==
    (ctx.start_from = None /\ ctx.end_at = None)
      => /\ \A i \in 1..Len(requests) : requests[i].state # "Trim"
         /\ ~trim.probed
         /\ Exited("Trim") =>
              /\ processing["trimmed_video.mp4"] = SourceBytes
              /\ trim.outcome = "copied"

C8_Witness ==
    /\ ctx.start_from = None
    /\ ctx.end_at = None
    /\ Exited("Trim")

\* C9: for every text mm:ss with one or two minute digits and two second
\* digits in 00..59, parse_timestamp returns minutes * 60 + seconds.
C9_ParseValue ==
    (ts_result # TsIdle /\ MmSsForm(ts_text) /\ SecondsField(ts_text) < 60)
      => ts_result = [kind |-> "ok",
                      value |-> MinutesField(ts_text) * 60
                                + SecondsField(ts_text)]

C9_Witness ==
    /\ ts_text = <<"5", ":", "3", "0">>
    /\ ts_result = [kind |-> "ok", value |-> 330]

\* C10: parse_timestamp fails with InvalidFormat for every text that is not
\* of the form mm:ss and with InvalidSeconds for every text of that form
\* whose seconds are 60 or more.
C10_ParseRejects ==
    ts_result # TsIdle
      => /\ ~MmSsForm(ts_text) => ts_result.kind = "InvalidFormat"
         /\ (MmSsForm(ts_text) /\ SecondsField(ts_text) >= 60)
              => ts_result.kind = "InvalidSeconds"

(***************************************************************************)
(* Vocabulary of the properties of format_timestamp and of the metadata.   *)
(***************************************************************************)
RECURSIVE DigitsValue(_)
DigitsValue(t) == IF t = <<>> THEN 0
                  ELSE 10 * DigitsValue(SubSeq(t, 1, Len(t) - 1))
                       + DigitVal(t[Len(t)])

ColonsOf(t) == {i \in 1..Len(t) : t[i] = ":"}
MinutesText(t) == SubSeq(t, 1, (CHOOSE i \in ColonsOf(t) : TRUE) - 1)
SecondsText(t) == SubSeq(t, (CHOOSE i \in ColonsOf(t) : TRUE) + 1, Len(t))
AllDigits(t) == \A i \in 1..Len(t) : t[i] \in Digits

\* The argument of format_timestamp without its fraction of a second.
WholeSeconds == fmt_seconds \div TicksPerSecond

\* The user gave the option, with a text that is not empty.
Supplied(x) == x \notin {NoneS, ""}

IsTextGen(r) == r.svc = "textgen"
TextGenRequests == SelectSeq(requests, IsTextGen)
EnteredState(s) == \E i \in 1..Len(events) : events[i] = <<"enter", s>>

\* C11: format_timestamp drops the fraction of a second and prints
\* minutes = floor(seconds / 60) and seconds = seconds mod 60, a colon
\* between them, each with two digits or with more when the number needs
\* them; 90 gives 01:30, 0 gives 00:00 and 300 gives 05:00.
C11_FormatTruncates ==
    fmt_text # <<>>
      => /\ Cardinality(ColonsOf(fmt_text)) = 1
         /\ AllDigits(MinutesText(fmt_text))
         /\ AllDigits(SecondsText(fmt_text))
         /\ Len(SecondsText(fmt_text)) = 2
         /\ Len(MinutesText(fmt_text)) >= 2
         /\ Len(MinutesText(fmt_text)) > 2 => MinutesText(fmt_text)[1] # "0"
         /\ DigitsValue(MinutesText(fmt_text)) = WholeSeconds \div 60
         /\ DigitsValue(SecondsText(fmt_text)) = WholeSeconds % 60
         /\ WholeSeconds = 90 => fmt_text = <<"0", "1", ":", "3", "0">>
         /\ WholeSeconds = 0 => fmt_text = <<"0", "0", ":", "0", "0">>
         /\ WholeSeconds = 300 => fmt_text = <<"0", "5", ":", "0", "0">>

C11_Witness ==
    /\ fmt_seconds = 90 * TicksPerSecond + 1
    /\ fmt_text = <<"0", "1", ":", "3", "0">>

IsTranscription(r) == r.svc = "transcription"

\* The text that stands in for the transcript when transcription is skipped.
StandIn == IF Supplied(ctx.title) THEN ctx.title ELSE "Video Content"

\* The files of the processing directory a state has written and read.
WrittenBy(s) == {f \in ProcessingFiles : <<s, "write", f>> \in io}
ReadBy(s) == {f \in ProcessingFiles \cup {"source"} : <<s, "read", f>> \in io}
ReadersOf(f) == {s \in {StateNames[i] : i \in 1..Len(StateNames)} :
                   <<s, "read", f>> \in io}

\* The well-known names of each state in the processing directory.
StepFiles(s) ==
    CASE s = "ExtractAudio" -> {"audio.wav"}
      [] s = "Transcribe" -> {"transcription.txt"}
      [] s = "GenerateMetadata" -> {"metadata.json"}
      [] s = "Trim" -> {"trimmed_video.mp4"}
      [] s = "Thumbnail&Publish" ->
           {"thumbnail_with_text.png", "thumbnail_video.mp4",
            "concat_list.txt", "video_with_thumbnail.mp4"}

\* The state does its work without writing: Transcribe when transcription
\* is skipped, GenerateMetadata when the user's title is used as it is.
WritesNothing(s) ==
    \/ s = "Transcribe" /\ ctx.skip_transcription
    \/ s = "GenerateMetadata" /\ ctx.skip_transcription
         /\ Supplied(ctx.title)

\* C14: with skip_transcription set the transcription service is never
\* called and no transcription file is written, and the text Transcribe
\* hands to GenerateMetadata is the supplied title, or "Video Content" when
\* no title was supplied.
C14_SkipTranscription ==
    ctx.skip_transcription
      => /\ SelectSeq(requests, IsTranscription) = <<>>
         /\ processing["transcription.txt"] = Absent
         /\ Exited("Transcribe") => transcription = StandIn
         /\ \A i \in 1..Len(TextGenRequests) :
              TextGenRequests[i].args.transcript = StandIn

C14_Witness ==
    /\ ctx.skip_transcription
    /\ ctx.title = NoneS
    /\ Exited("Transcribe")
    /\ transcription = "Video Content"
    /\ Len(requests) = 1

\* C15: after a successful run the output directory holds the video under
\* the name <timestamp>_<slug of the final title>.mp4 and the sidecar under
\* the same stem with _metadata.json; the sidecar has the title and the
\* description of the final metadata and the author of the context, null
\* when there is none.  With skip_transcription and the title
\* "Metadata Test" the sidecar title is "Metadata Test".
C15_PublishedNames ==
    pc = "done"
      => /\ output.video # Absent
         /\ output.sidecar # Absent
         /\ output.video_name = <<ctx.timestamp, "_",
                                  slugify(metadata.title), ".mp4">>
         /\ output.sidecar_name = <<ctx.timestamp, "_",
                                    slugify(metadata.title),
                                    "_metadata.json">>
         /\ output.sidecar_json.title = metadata.title
         /\ output.sidecar_json.description = metadata.description
         /\ output.sidecar_json.author = ctx.author
         /\ (ctx.skip_transcription /\ ctx.title = "Metadata Test")
              => output.sidecar_json.title = "Metadata Test"

C15_Witness ==
    /\ pc = "done"
    /\ ctx.skip_transcription
    /\ ctx.title = "Metadata Test"
    /\ ctx.author = NoneS
    /\ output.sidecar_json.title = "Metadata Test"
    /\ output.sidecar_json.author = NoneS
    /\ output.video_name = <<RunTimestamp, "_", "metadata-test", ".mp4">>
    /\ output.sidecar_name = <<RunTimestamp, "_", "metadata-test",
                               "_metadata.json">>

\* C16: when two runs have been executing at the same time, no path one of
\* them has written is written or read by the other.
C16_ConcurrentRunsDisjoint ==
    overlapped
      => \A a \in touched, b \in touched :
           (a[1] # b[1] /\ a[3] = b[3]) => (a[2] = "read" /\ b[2] = "read")

\* C17, as claimed: no state writes two or more files into the processing
\* directory, and a state that has completed, other than one that had
\* nothing to produce, has written exactly one.
C17_OneFilePerStep ==
    \A i \in 1..Len(StateNames) :
      /\ Cardinality(WrittenBy(StateNames[i])) <= 1
      /\ (Exited(StateNames[i]) /\ ~WritesNothing(StateNames[i]))
           => Cardinality(WrittenBy(StateNames[i])) = 1

\* C17, amended: a state writes into the processing directory only under
\* its own well-known names, and a state that has completed has written all
\* of them, or none when it had nothing to produce: one name each for
\* ExtractAudio, Transcribe, GenerateMetadata and Trim, and four for
\* Thumbnail&Publish.
C17_StepFiles ==
    \A i \in 1..Len(StateNames) :
      LET s == StateNames[i]
      IN  /\ WrittenBy(s) \subseteq StepFiles(s)
          /\ Exited(s) => WrittenBy(s) = IF WritesNothing(s) THEN {}
                                         ELSE StepFiles(s)
          /\ Cardinality(StepFiles(s)) = IF s = "Thumbnail&Publish" THEN 4
                                         ELSE 1

C17_Witness ==
    /\ Exited("Thumbnail&Publish")
    /\ WrittenBy("Thumbnail&Publish") =
         {"thumbnail_with_text.png", "thumbnail_video.mp4",
          "concat_list.txt", "video_with_thumbnail.mp4"}
    /\ WrittenBy("Transcribe") = {}

\* C18, as claimed: a file a state after the first reads as its input was
\* written by the state just before it, and no artifact, nor the source
\* video, is read by two states that are not adjacent.
C18_HandOffChain ==
    /\ \A i \in 2..Len(StateNames) :
         \A f \in ReadBy(StateNames[i]) \ WrittenBy(StateNames[i]) :
           f \in WrittenBy(StateNames[i - 1])
    /\ \A f \in ProcessingFiles \cup {"source"} :
         \A s1 \in ReadersOf(f), s2 \in ReadersOf(f) :
           IndexOf(s1) - IndexOf(s2) \in {-1, 0, 1}

\* C18, amended: a file of the processing directory is read only by the
\* state that wrote it or by the state just after that one; Transcribe
\* reads the audio of ExtractAudio and Thumbnail&Publish the trimmed video
\* of Trim.  The source video is read twice, by ExtractAudio and again by
\* Trim, and transcription.txt and metadata.json are read by no state.
C18_HandOff ==
    /\ \A i \in 1..Len(StateNames) :
         \A f \in (ReadBy(StateNames[i]) \ {"source"})
                   \ WrittenBy(StateNames[i]) :
           i > 1 /\ f \in WrittenBy(StateNames[i - 1])
    /\ ReadersOf("source") \subseteq {"ExtractAudio", "Trim"}
    /\ EnteredState("Trim") => ReadersOf("source") = {"ExtractAudio", "Trim"}
    /\ ReadersOf("transcription.txt") = {}
    /\ ReadersOf("metadata.json") = {}
    /\ (EnteredState("Transcribe") /\ ~ctx.skip_transcription)
         => ReadBy("Transcribe") = {"audio.wav"}
    /\ EnteredState("Thumbnail&Publish")
         => "trimmed_video.mp4" \in ReadBy("Thumbnail&Publish")

C18_Witness ==
    /\ pc = "done"
    /\ ReadersOf("source") = {"ExtractAudio", "Trim"}
    /\ ReadBy("Transcribe") = {"audio.wav"}
    /\ ReadBy("GenerateMetadata") = {}
    /\ "trimmed_video.mp4" \in ReadBy("Thumbnail&Publish")

\* C19: no step of the run changes any field of the processing context.
C19_ContextUnchanged == [][ctx' = ctx]_vars

C19_Witness ==
    /\ pc = "done"
    /\ ctx.title = NoneS
    /\ ctx.subtitle = NoneS
    /\ metadata.title = Generated.title
    /\ metadata.description = Generated.description

\* C20: when the input video or the theme image is missing, the process
\* command ends with exit code 1 without entering a state, calling a
\* service or opening a file of the run; when it is the theme that is
\* missing, the message names the theme and lists the other themes, or the
\* word none when there are none.
C20_InputChecksAbort ==
    (orch = "cli" /\ (~fs_in.video \/ ThemeMissing))
      => /\ pc \in {"validate", "aborted"}
         /\ events = <<>>
         /\ requests = <<>>
         /\ io = {}
         /\ pc = "aborted"
              => /\ exit = "exit1"
                 /\ ~fs_in.video => error.kind = "VideoNotFound"
                 /\ fs_in.video
                      => /\ error.kind = "ThemeNotFound"
                         /\ error.theme = Theme
                         /\ error.available \in
                              (Listings \ {<<>>}) \cup {<<"none">>}

C20_Witness ==
    /\ pc = "aborted"
    /\ exit = "exit1"
    /\ fs_in.video
    /\ error = [kind |-> "ThemeNotFound", theme |-> Theme,
                available |-> <<"none">>]

\* C21: the theme is resolved to thumbnails/<theme>.jpg whenever that file
\* exists, also when the png exists too, to thumbnails/<theme>.png only when
\* the jpg does not exist, and the lookup fails with the theme-not-found
\* error exactly when neither exists.
C21_ThemeFirstMatch ==
    (orch = "cli" /\ fs_in.video /\ pc # "validate")
      => /\ fs_in.jpg => thumbnail_path = "jpg"
         /\ (~fs_in.jpg /\ fs_in.png) => thumbnail_path = "png"
         /\ thumbnail_path = "png" => ~fs_in.jpg
         /\ (error.kind = "ThemeNotFound") <=> (~fs_in.jpg /\ ~fs_in.png)
         /\ error.kind = "ThemeNotFound"
              => (pc = "aborted" /\ thumbnail_path = "unresolved")

C21_Witness ==
    /\ orch = "cli"
    /\ fs_in.jpg
    /\ fs_in.png
    /\ pc = "ExtractAudio"
    /\ thumbnail_path = "jpg"

(***************************************************************************)
(* Vocabulary of the properties of the requests.                           *)
(***************************************************************************)
AnyFailed == \E i \in 1..Len(events) : events[i][1] = "fail"
FailedState == (CHOOSE i \in 1..Len(events) : events[i][1] = "fail")
RequestsOf(s) == SelectSeq(requests, LAMBDA r : r.state = s)
OpsOf(s) == [i \in 1..Len(RequestsOf(s)) |-> RequestsOf(s)[i].op]
IsPrefix(p, q) == Len(p) <= Len(q) /\ \A i \in 1..Len(p) : p[i] = q[i]

\* The requests of each state, in the order the state makes them.
OpsInOrder(s) ==
    CASE s = "ExtractAudio" -> <<"extract_audio">>
      [] s = "Transcribe" -> <<"transcribe">>
      [] s = "GenerateMetadata" -> <<"generate">>
      [] s = "Trim" -> <<"probe_duration", "trim">>
      [] s = "Thumbnail&Publish" ->
           <<"probe_dimensions", "title_card", "probe_streams",
             "still_to_video", "concat">>

\* C22: no request is made twice in a run: each state makes the requests of
\* its own list, in order and at most once, and the log follows the order
\* of the states.  After a state has failed the run is over: no request of
\* a later state is in the log and no state is left to make one.
C22_NoRetry ==
    /\ \A i \in 1..Len(StateNames) :
         IsPrefix(OpsOf(StateNames[i]), OpsInOrder(StateNames[i]))
    /\ \A i \in 1..Len(requests), j \in 1..Len(requests) :
         i < j => IndexOf(requests[i].state) <= IndexOf(requests[j].state)
    /\ AnyFailed
         => /\ pc = "failed"
            /\ \A i \in 1..Len(requests) :
                 IndexOf(requests[i].state)
                   <= IndexOf(events[FailedState][2])
            /\ Cardinality({i \in 1..Len(events) : events[i][1] = "fail"}) = 1
            /\ events[Len(events)][1] = "fail"

C22_Witness ==
    /\ Failed("Thumbnail&Publish")
    /\ OpsOf("Thumbnail&Publish") =
         <<"probe_dimensions", "title_card", "probe_streams">>
    /\ Len(requests) >= 6

\* C23: no state and no failure removes a file from the processing
\* directory: every file a state has written is still there, and after a
\* run has failed in a state, all the files of the states that completed
\* before it are there.
C23_ArtifactsKept ==
    /\ \A i \in 1..Len(StateNames) :
         \A f \in WrittenBy(StateNames[i]) : processing[f] # Absent
    /\ AnyFailed
         => \A i \in 1..Len(StateNames) :
              (Exited(StateNames[i]) /\ ~WritesNothing(StateNames[i]))
                => \A f \in StepFiles(StateNames[i]) : processing[f] # Absent

C23_Witness ==
    /\ Failed("Trim")
    /\ exit \in {"exit1", "raised"}
    /\ processing["audio.wav"] = "audio"
    /\ processing["transcription.txt"] = "transcript"
    /\ processing["metadata.json"] = "generated"

IsConcat(r) == r.op = "concat"

\* C24: the request that joins the title clip and the main clip re-encodes
\* them: no concatenation request asks for a stream copy.
C24_ConcatReencodes ==
    \A i \in 1..Len(requests) :
      IsConcat(requests[i]) => requests[i].args.c # "copy"

\* C25: ExtractAudio is the first thing every run does once the inputs of
\* the command have been found, with skip_transcription set as well: a run
\* that has got anywhere has entered ExtractAudio first, and its extraction
\* request, the first of the run, asks for one channel of 16-bit PCM at
\* 16000 Hz.
C25_ExtractAudioAlways ==
    /\ pc \notin {"validate", "aborted", "ExtractAudio"}
         => /\ Len(requests) >= 1
            /\ requests[1].op = "extract_audio"
            /\ requests[1].state = "ExtractAudio"
            /\ events[1] = <<"enter", "ExtractAudio">>
    /\ \A i \in 1..Len(requests) :
         requests[i].op = "extract_audio"
           => /\ i = 1
              /\ requests[i].svc = "transcode"
              /\ requests[i].args = [acodec |-> "pcm_s16le", ac |-> 1,
                                     ar |-> 16000]

C25_Witness ==
    /\ ctx.skip_transcription
    /\ pc = "done"
    /\ requests[1].op = "extract_audio"
    /\ requests[1].args.ac = 1
    /\ requests[1].args.ar = 16000
    /\ processing["audio.wav"] = "audio"

\* C26: a trim that passes the range checks makes exactly one extraction
\* request, after the probe: a stream copy that seeks to start and lasts
\* end - start, where start is the parsed --start-from or 0 without one and
\* end is the parsed --end-at cut to the source duration, or the source
\* duration without one; the requested duration is above 0 and at most the
\* source duration.
C26_TrimRequest ==
    /\ Cardinality(TrimRequests) <= 1
    /\ \A i \in TrimRequests :
         /\ Planned
         /\ i > 1
         /\ requests[i - 1].op = "probe_duration"
         /\ requests[i].args.c = "copy"
         /\ requests[i].args.ss = StartTicks
         /\ requests[i].args.t = ClampedEndTicks - StartTicks
         /\ requests[i].args.t > 0
         /\ requests[i].args.t <= trim.duration
    /\ (Planned /\ StartTicks < trim.duration /\ StartTicks < ClampedEndTicks)
         => TrimRequests # {}

C26_Witness ==
    /\ Truthy(ctx.start_from)
    /\ Truthy(ctx.end_at)
    /\ trim.warned
    /\ \E i \in TrimRequests :
         /\ requests[i].args.ss = TicksPerSecond
         /\ requests[i].args.t = trim.duration - TicksPerSecond
         /\ requests[i].args.c = "copy"

TitleCards == {i \in 1..Len(requests) : requests[i].op = "title_card"}

\* C27: every title card is drawn on a canvas of the size probed from the
\* trimmed video, the file the fourth state left, by the dimension probe
\* that comes right before it, and never of the source; its subtitle is the
\* author when the command gave one and the final description otherwise.
C27_TitleCard ==
    \A i \in TitleCards :
      /\ requests[i].state = "Thumbnail&Publish"
      /\ requests[i].args.size = "trimmed_video.mp4"
      /\ i > 1
      /\ requests[i - 1].op = "probe_dimensions"
      /\ requests[i - 1].args.input = requests[i].args.size
      /\ processing["trimmed_video.mp4"] # Absent
      /\ requests[i].args.subtitle =
           (IF Supplied(ctx.author) THEN ctx.author ELSE metadata.description)

C27_Witness ==
    /\ trim.ran
    /\ TrimRequests # {}
    /\ ~Supplied(ctx.author)
    /\ \E i \in TitleCards :
         /\ requests[i].args.subtitle = metadata.description
         /\ requests[i].args.size = "trimmed_video.mp4"

\* The language tag run_pipeline hands to transcription for the inputs of
\* the run: lang=ctx.lang.
PipelineLang == ctx.lang

\* C28: cli.process and run_pipeline issue the same requests with the same
\* parameters for the same inputs: whichever of the two runs, every
\* transcription request carries the language tag run_pipeline passes for
\* these inputs, the language of the command.
C28_OrchestratorsAgree ==
    \A i \in 1..Len(requests) :
      IsTranscription(requests[i]) => requests[i].args.lang = PipelineLang

VideoPublished == output.video # Absent
SidecarPublished == output.sidecar # Absent

\* C29: publishing writes the video before the sidecar: whenever the
\* sidecar of the run is in the output directory, so is the video of the
\* run, under the same stem. The converse can fail: a run whose sidecar
\* write failed after the copy leaves the video without a sidecar, and that
\* run has failed in the fifth state.
C29_VideoBeforeSidecar ==
    /\ SidecarPublished =>
         /\ VideoPublished
         /\ output.video_name # <<>>
         /\ SubSeq(output.video_name, 1, Len(output.video_name) - 1)
              = SubSeq(output.sidecar_name, 1, Len(output.sidecar_name) - 1)
         /\ <<"output video", "write">> \in
              {<<a[3], a[2]>> : a \in {b \in io : b[1] = "Thumbnail&Publish"}}
    /\ (VideoPublished /\ ~SidecarPublished) =>
         /\ exit = Fatal
         /\ Failed("Thumbnail&Publish")

C29_Witness ==
    /\ VideoPublished
    /\ ~SidecarPublished
    /\ output.video_name # <<>>
    /\ output.sidecar_name = <<>>
    /\ exit = Fatal

\* The largest number of seconds two minute digits can write, plus one.
RoundTripLimit == 100 * SecondsPerMinute

ValidTs(t) == MmSsForm(t) /\ SecondsField(t) < SecondsPerMinute

\* C30: parse_timestamp and format_timestamp undo each other on whole
\* seconds below 6000 and on valid timestamps: parsing the text that
\* format_timestamp makes of s whole seconds, 0 <= s < 6000, gives s; and
\* formatting the seconds that parse_timestamp makes of a valid timestamp
\* gives the timestamp back when it has two minute digits, and the
\* timestamp with a zero before it when it has one ("5:30" comes back as
\* "05:30").
C30_RoundTrip ==
    /\ ( /\ back_result # TsIdle
         /\ fmt_seconds % TicksPerSecond = 0
         /\ fmt_seconds \div TicksPerSecond < RoundTripLimit )
         => back_result = [kind |-> "ok",
                           value |-> fmt_seconds \div TicksPerSecond]
    /\ (back_text # <<>> /\ ValidTs(ts_text))
         => back_text = (IF Len(MinutesText(ts_text)) = 2 THEN ts_text
                         ELSE <<"0">> \o ts_text)

C30_Witness ==
    /\ ts_text = <<"5", ":", "3", "0">>
    /\ back_text = <<"0", "5", ":", "3", "0">>
    /\ fmt_text = <<"0", "0", ":", "0", "0">>
    /\ back_result = [kind |-> "ok", value |-> 0]

====
